---- MODULE Spec2Model ----
(***************************************************************************)
(* container-copier: a daemon that loads a TOML configuration of copysets, *)
(* makes the initial copies, registers one inotify watch per target and    *)
(* copies a source to its target whenever an event for its watch arrives.  *)
(* The model follows src/src/main.rs: main, Config::load, Config::setup,   *)
(* Copyset::add_to_watch, ResolvedTarget::copy and Env::run.  The kernel's *)
(* inotify instance, the filesystem and the processes that write to the    *)
(* watched files are the environment.                                      *)
(***************************************************************************)
EXTENDS Integers, Sequences, FiniteSets, TLC

VARIABLES
    pc,          \* where main is: "main", "init", "resolve", "reconcile",
                 \* "register", "stream", "running", "exit"
    exit_code,   \* the process's exit status once pc = "exit", else -1
    exit_at,     \* the place main left from once pc = "exit", else "none"
    doc,         \* the configuration document on disk (event names are strings)
    config,      \* the Config that Config::load returned (typed events)
    fs,          \* the filesystem: path -> node
    notify,      \* the inotify instance: created, its watches, the next descriptor
    queue,       \* events the kernel has queued and the stream has not yet yielded
    targets,     \* Env.targets: watch descriptor -> ResolvedTarget
    cur,         \* the copyset and the target spec add_to_watch is at
    loc,         \* add_to_watch's locals: source, target, target_exists
    copies,      \* log: every call of ResolvedTarget::copy, in order
    registered,  \* log: every call of watches().add, in order
    handled,     \* log: every item the dispatch loop took from the stream
    ext          \* how many steps the environment has taken

vars == <<pc, exit_code, exit_at, doc, config, fs, notify, queue, targets, cur,
          loc, copies, registered, handled, ext>>

\* ---------------------------------------------------------------- bounds

\* Steps the environment (the processes that read, write and delete the source
\* files) may take in one run.
MaxExt == 2

\* Events the kernel's queue holds before it reports an overflow
\* (fs.inotify.max_queued_events).
MaxQueue == 1

\* ------------------------------------------------------------- NotifyEvent

\* The variants of enum NotifyEvent.
NotifyEvent ==
    {"Access", "Attrib", "CloseWrite", "CloseNoWrite", "Create", "Delete",
     "DeleteSelf", "Modify", "MoveSelf", "MovedFrom", "MovedTo", "Open",
     "All", "Move", "Close", "DontFollow", "ExclUnlink", "Oneshot"}

\* The #[serde(alias = ...)] attribute of each variant.
Alias(v) ==
    CASE v = "Access"       -> "ACCESS"
      [] v = "Attrib"       -> "ATTRIB"
      [] v = "CloseWrite"   -> "CLOSE_WRITE"
      [] v = "CloseNoWrite" -> "CLOSE_NOWRITE"
      [] v = "Create"       -> "CREATE"
      [] v = "Delete"       -> "DELETE"
      [] v = "DeleteSelf"   -> "DELETE_SELF"
      [] v = "Modify"       -> "MODIFY"
      [] v = "MoveSelf"     -> "MOVE_SELF"
      [] v = "MovedFrom"    -> "MOVED_FROM"
      [] v = "MovedTo"      -> "MOVED_TO"
      [] v = "Open"         -> "OPEN"
      [] v = "All"          -> "ALL"
      [] v = "Move"         -> "MOVE"
      [] v = "Close"        -> "CLOSE"
      [] v = "DontFollow"   -> "DONT_FOLLOW"
      [] v = "ExclUnlink"   -> "EXCL_UNLINK"
      [] v = "Oneshot"      -> "ONESHOT"

\* The strings serde's derived Deserialize accepts for variant v: the variant's
\* own name, and its alias (an alias adds a name, it does not replace one).
AcceptedNames(v) == {v, Alias(v)}

\* Mutant of DeserializeEvent: an unknown name falls back to a variant.
DeserializeEventLenient(s) ==
    IF \E v \in NotifyEvent : s \in AcceptedNames(v)
    THEN CHOOSE v \in NotifyEvent : s \in AcceptedNames(v)
    ELSE "Modify"

\* Deserializing one event string: the variant, or "Err".
DeserializeEvent(s) ==
    IF \E v \in NotifyEvent : s \in AcceptedNames(v)
    THEN CHOOSE v \in NotifyEvent : s \in AcceptedNames(v)
    ELSE "Err"

\* The event kinds of inotify (IN_ALL_EVENTS).
ALL_EVENTS ==
    {"ACCESS", "MODIFY", "ATTRIB", "CLOSE_WRITE", "CLOSE_NOWRITE", "OPEN",
     "MOVED_FROM", "MOVED_TO", "CREATE", "DELETE", "DELETE_SELF", "MOVE_SELF"}

\* Mutant of WatchMaskFrom: Move selects MOVE_SELF too.
WatchMaskFromWithMoveSelf(v) ==
    CASE v = "All"   -> ALL_EVENTS
      [] v = "Move"  -> {"MOVED_FROM", "MOVED_TO", "MOVE_SELF"}
      [] v = "Close" -> {"CLOSE_WRITE", "CLOSE_NOWRITE"}
      [] OTHER       -> {Alias(v)}

\* impl From<NotifyEvent> for WatchMask: the bits of each variant.  WatchMask::MOVE
\* is IN_MOVE (MOVED_FROM | MOVED_TO) and WatchMask::CLOSE is IN_CLOSE.
WatchMaskFrom(v) ==
    CASE v = "All"   -> ALL_EVENTS
      [] v = "Move"  -> {"MOVED_FROM", "MOVED_TO"}
      [] v = "Close" -> {"CLOSE_WRITE", "CLOSE_NOWRITE"}
      [] OTHER       -> {Alias(v)}

\* .copied().map(WatchMask::from).collect(): the union of the bits.
CollectMask(events) == UNION {WatchMaskFrom(events[i]) : i \in DOMAIN events}

\* Config::default_events.
default_events == <<"Create", "Delete", "Modify">>

\* ------------------------------------------------------------------ paths

\* A path is its components and whether it is absolute.
Path(abs, comps) == [abs |-> abs, comps |-> comps]

\* PathBuf::join: an absolute argument replaces the base.
PathJoin(base, p) ==
    IF p.abs THEN p ELSE Path(base.abs, base.comps \o p.comps)

\* Path::parent.
PathParent(p) == Path(p.abs, SubSeq(p.comps, 1, Len(p.comps) - 1))

\* A path and its ancestors.
Prefixes(p) == {Path(p.abs, SubSeq(p.comps, 1, n)) : n \in 0..Len(p.comps)}

\* -------------------------------------------------- configuration documents

\* Option<T>.
Some(x) == [some |-> TRUE, val |-> x]
NoEvents == [some |-> FALSE, val |-> <<>>]
NoPath == [some |-> FALSE, val |-> Path(FALSE, <<>>)]

\* A [[copysets.targets]] table (struct Target).
Target(events, source, target) ==
    [events |-> events, source |-> source, target |-> target]

\* A [[copysets]] table (struct Copyset); the name is only logged.
Copyset(events, source, target, tgts) ==
    [events |-> events, source |-> source, target |-> target, targets |-> tgts]

\* The base directories of the documents checked.
SourceBase == Path(TRUE, <<"src">>)
TargetBase == Path(TRUE, <<"dst">>)

\* The target tables the documents checked are made of.
DocSources == {Path(FALSE, <<"a">>), Path(FALSE, <<"b">>)}
DocTargets ==
    {NoPath, Some(Path(FALSE, <<"sub", "a">>)), Some(Path(TRUE, <<"dst", "b">>))}
DocTargetEvents ==
    {NoEvents, Some(<<"ACCESS">>), Some(<<"MODIFY", "ONESHOT">>), Some(<<"BOGUS">>)}
DocCopysetEvents == {NoEvents, Some(<<"CREATE", "Modify">>)}

\* The target tables that come first in a document.
DocTargetTables ==
    {Target(e, Path(FALSE, <<"a">>), t) : e \in DocTargetEvents, t \in DocTargets}

\* The target tables that come second in a document.
DocSecondTargetTables ==
    {Target(e, s, NoPath) : e \in {NoEvents, Some(<<"MODIFY">>)}, s \in DocSources}

\* The documents checked: one copyset of one or two targets, or two copysets
\* of one target each.
Documents ==
    {<<Copyset(e, SourceBase, TargetBase, <<t>>)>> :
        e \in DocCopysetEvents, t \in DocTargetTables}
    \cup {<<Copyset(e, SourceBase, TargetBase, <<t1, t2>>)>> :
        e \in DocCopysetEvents, t1 \in DocTargetTables, t2 \in DocSecondTargetTables}
    \cup {<<Copyset(NoEvents, SourceBase, TargetBase, <<t1>>),
            Copyset(e, SourceBase, TargetBase, <<t2>>)>> :
        e \in DocCopysetEvents, t1 \in DocTargetTables, t2 \in DocSecondTargetTables}

\* ---------------------------------------------------------- Config::load

\* Vec<NotifyEvent> deserialized from a list of strings.
DeserializeEvents(names) == [i \in DOMAIN names |-> DeserializeEvent(names[i])]

\* Whether an optional list of event names deserializes.
EventsDeserialize(opt) ==
    \A i \in DOMAIN opt.val : DeserializeEvent(opt.val[i]) # "Err"

\* toml::from_str succeeds: every event name of every copyset and of every
\* target deserializes.
DocumentDeserializes(d) ==
    \A c \in DOMAIN d :
        /\ EventsDeserialize(d[c].events)
        /\ \A t \in DOMAIN d[c].targets : EventsDeserialize(d[c].targets[t].events)

\* The Config toml::from_str builds: a copyset without events gets
\* Config::default_events (#[serde(default)]), a target without events keeps None.
Deserialize(d) ==
    [c \in DOMAIN d |->
        [events  |-> IF d[c].events.some
                     THEN DeserializeEvents(d[c].events.val)
                     ELSE default_events,
         source  |-> d[c].source,
         target  |-> d[c].target,
         targets |-> [t \in DOMAIN d[c].targets |->
                        [events |-> IF d[c].targets[t].events.some
                                    THEN Some(DeserializeEvents(d[c].targets[t].events.val))
                                    ELSE NoEvents,
                         source |-> d[c].targets[t].source,
                         target |-> d[c].targets[t].target]]]]

\* -------------------------------------------------------------- filesystem

Absent == [kind |-> "absent", data |-> 0]
Dir == [kind |-> "dir", data |-> 0]
File(n) == [kind |-> "file", data |-> n]

\* The paths the documents checked can name, with their ancestors.
FsPaths ==
    UNION {Prefixes(PathJoin(SourceBase, s)) : s \in DocSources}
    \cup UNION {Prefixes(PathJoin(TargetBase, s)) : s \in DocSources}
    \cup UNION {Prefixes(PathJoin(TargetBase, t.val)) : t \in DocTargets \ {NoPath}}

Root == Path(TRUE, <<>>)

\* Path::exists, Path::try_exists without error, Path::is_file.
Exists(f, p) == f[p].kind # "absent"
IsFile(f, p) == f[p].kind = "file"
IsDir(f, p) == f[p].kind = "dir"

\* Mutant of CreateDirAll: only the directory itself is made (create_dir).
CreateDirOnly(f, p) == [f EXCEPT ![p] = Dir]

\* std::fs::create_dir_all: every missing ancestor becomes a directory.
CreateDirAll(f, p) ==
    [q \in DOMAIN f |-> IF q \in Prefixes(p) /\ ~Exists(f, q) THEN Dir ELSE f[q]]

\* create_dir_all cannot succeed when an ancestor is a file.
CanCreateDirAll(f, p) == \A q \in Prefixes(p) : ~IsFile(f, q)

\* std::fs::copy can succeed: the source is a regular file, the target's parent
\* is a directory and the target is not a directory.
CanCopy(f, source, target) ==
    /\ IsFile(f, source)
    /\ IsDir(f, PathParent(target))
    /\ ~IsDir(f, target)

\* ResolvedTarget::new.
ResolvedTarget(source, target) == [source |-> source, target |-> target]

\* ResolvedTarget::copy on filesystem f: the outcomes it can have, each with the
\* filesystem it leaves.  The parent directory is created when it does not
\* exist; a failure there returns before std::fs::copy is called.  Either call
\* can fail for reasons outside the model (permissions, a full disk).
CopyResults(f, rt) ==
    LET parent == PathParent(rt.target)
        mkdir  == ~Exists(f, parent)
        f1     == IF mkdir THEN CreateDirAll(f, parent) ELSE f
    IN  (IF mkdir THEN {[ok |-> FALSE, at |-> "create_dir_all", fs |-> f]} ELSE {})
        \cup (IF mkdir /\ ~CanCreateDirAll(f, parent)
              THEN {}
              ELSE {[ok |-> FALSE, at |-> "copy", fs |-> f1]}
                   \cup (IF CanCopy(f1, rt.source, rt.target)
                         THEN {[ok |-> TRUE, at |-> "copy",
                                fs |-> [f1 EXCEPT ![rt.target] = f1[rt.source]]]}
                         ELSE {}))

\* ------------------------------------------------------- the inotify instance

\* The kernel's event kinds that no mask selects.
IGNORED == "IGNORED"
Q_OVERFLOW == "Q_OVERFLOW"

Event(wd, kind) == [wd |-> wd, kind |-> kind]

\* The watch on a path, as a set of at most one watch.
WatchesOn(n, path) == {w \in n.watches : w.path = path}

\* Watches::add (inotify_add_watch): the outcomes it can have.  A path that
\* is already watched keeps its descriptor and gets the new mask; a new path
\* gets the next descriptor.  It fails on a missing path and on a mask without
\* any event kind, and can fail for reasons outside the model (watch limit).
AddResults(n, f, path, mask) ==
    {[ok |-> FALSE, wd |-> 0, notify |-> n]}
    \cup (IF Exists(f, path) /\ mask \cap ALL_EVENTS # {}
          THEN IF WatchesOn(n, path) # {}
               THEN LET w == CHOOSE w \in WatchesOn(n, path) : TRUE
                    IN  {[ok |-> TRUE, wd |-> w.wd,
                          notify |-> [n EXCEPT !.watches =
                                        (@ \ {w}) \cup {[w EXCEPT !.mask = mask]}]]}
               ELSE {[ok |-> TRUE, wd |-> n.next,
                      notify |-> [n EXCEPT
                                    !.watches = @ \cup {[wd |-> n.next, path |-> path,
                                                         mask |-> mask]},
                                    !.next = @ + 1]]}
          ELSE {})

\* The kernel queues an event: when the queue is full, Q_OVERFLOW with descriptor
\* -1 is queued in its place, once, and the event is dropped.
Enqueue(q, e) ==
    IF Len(q) < MaxQueue THEN Append(q, e)
    ELSE IF q[Len(q)].kind = Q_OVERFLOW THEN q
    ELSE Append(q, Event(-1, Q_OVERFLOW))

\* The kernel reports an event of a kind on a path: it is queued for the watch
\* on the path when the watch's mask selects the kind.  A ONESHOT watch is then
\* removed, which queues IGNORED.
Deliver(k, path, kind) ==
    LET hit == {w \in WatchesOn(k.notify, path) : kind \in w.mask}
    IN  IF hit = {} THEN k
        ELSE LET w == CHOOSE w \in hit : TRUE
             IN  IF "ONESHOT" \in w.mask
                 THEN [notify |-> [k.notify EXCEPT !.watches = @ \ {w}],
                       queue  |-> Enqueue(Enqueue(k.queue, Event(w.wd, kind)),
                                          Event(w.wd, IGNORED))]
                 ELSE [k EXCEPT !.queue = Enqueue(@, Event(w.wd, kind))]

\* The kernel removes the watch on a path whose file is gone: IGNORED is queued
\* whatever the mask.
Forget(k, path) ==
    IF WatchesOn(k.notify, path) = {} THEN k
    ELSE LET w == CHOOSE w \in WatchesOn(k.notify, path) : TRUE
         IN  [notify |-> [k.notify EXCEPT !.watches = @ \ {w}],
              queue  |-> Enqueue(k.queue, Event(w.wd, IGNORED))]

Kernel == [notify |-> notify, queue |-> queue]

\* ----------------------------------------------------------- initial state

\* The (copyset, target) positions of the two nested loops, in their order.
Positions(cfg) ==
    UNION {{<<c, t>> : t \in DOMAIN cfg[c].targets} : c \in DOMAIN cfg}


\* The source paths a Config names.
SourcePaths(cfg) ==
    {PathJoin(cfg[p[1]].source, cfg[p[1]].targets[p[2]].source) : p \in Positions(cfg)}

\* The filesystems a run starts from: source a is a file, missing or a
\* directory, source b is a file; the target tree is missing ("none"), holds
\* only an older a ("stale") or holds every target ("full").
MakeFs(a, d) ==
    [p \in FsPaths |->
        IF p = Root \/ p = SourceBase THEN Dir
        ELSE IF p = PathJoin(SourceBase, Path(FALSE, <<"a">>)) THEN a
        ELSE IF p = PathJoin(SourceBase, Path(FALSE, <<"b">>)) THEN File(1)
        ELSE IF p = TargetBase THEN (IF d = "none" THEN Absent ELSE Dir)
        ELSE IF p = PathJoin(TargetBase, Path(FALSE, <<"sub">>))
             THEN (IF d = "full" THEN Dir ELSE Absent)
        ELSE IF d = "full" THEN File(0)
        ELSE IF d = "stale" /\ p = PathJoin(TargetBase, Path(FALSE, <<"a">>))
             THEN File(0)
        ELSE Absent]

InitialFs ==
    {MakeFs(File(1), d) : d \in {"none", "stale", "full"}}
    \cup {MakeFs(a, "none") : a \in {Absent, Dir}}

\* add_to_watch's locals before the first target.  Besides source, target and
\* target_exists they record what the filesystem held when try_exists was
\* called (was_present) and whether it returned Ok (checked), and what is_file
\* returned (was_file).
NoLoc == [source |-> Root, target |-> Root, target_exists |-> FALSE,
          was_present |-> FALSE, was_file |-> FALSE, checked |-> TRUE]

Init ==
    /\ pc = "main"
    /\ exit_code = -1
    /\ exit_at = "none"
    /\ doc \in Documents
    /\ config = <<>>
    /\ fs \in InitialFs
    /\ notify = [created |-> FALSE, watches |-> {}, next |-> 1]
    /\ queue = <<>>
    /\ targets = <<>>
    /\ cur = <<0, 0>>
    /\ loc = NoLoc
    /\ copies = <<>>
    /\ registered = <<>>
    /\ handled = <<>>
    /\ ext = 0

\* ------------------------------------------------------------------- main

\* The process exits with a status.
Exit(code, at) ==
    /\ pc' = "exit"
    /\ exit_code' = code
    /\ exit_at' = at

\* The status clap exits with on a usage error.
ExitUsage == 2

\* Mutant of Termination: an error returned by main is not reported.
TerminationAlwaysSuccess(result) == 0

\* The status of a main that returns result (impl Termination for Result).
Termination(result) == IF result = "Ok" THEN 0 ELSE 1

\* Mutant of Return: the error is swallowed and the event stream is opened.
ReturnSwallowed(result, at) ==
    /\ pc' = "stream"
    /\ UNCHANGED <<exit_code, exit_at>>

\* Mutant of Return: the error is logged and the caller carries on.
ReturnLoggedOnly(result, at) == UNCHANGED <<pc, exit_code, exit_at>>

\* main returns result.
Return(result, at) == Exit(Termination(result), at)

\* Args::parse() with --help: clap prints the help and exits with 0.
ParseHelp ==
    /\ pc = "main"
    /\ Exit(0, "help")
    /\ UNCHANGED <<doc, config, fs, notify, queue, targets, cur, loc, copies,
                   registered, handled, ext>>

\* Args::parse() with arguments it rejects: clap prints the error and exits.
ParseUsageError ==
    /\ pc = "main"
    /\ Exit(ExitUsage, "usage")
    /\ UNCHANGED <<doc, config, fs, notify, queue, targets, cur, loc, copies,
                   registered, handled, ext>>

\* args.version: print_version() and return Ok(()).
PrintVersion ==
    /\ pc = "main"
    /\ Return("Ok", "version")
    /\ UNCHANGED <<doc, config, fs, notify, queue, targets, cur, loc, copies,
                   registered, handled, ext>>

\* Config::load: Err when the file cannot be read or does not deserialize,
\* and main returns it; else the Config.
LoadConfig ==
    /\ pc = "main"
    /\ \E readable \in BOOLEAN :
          IF readable /\ DocumentDeserializes(doc)
          THEN /\ config' = Deserialize(doc)
               /\ pc' = "init"
               /\ UNCHANGED <<exit_code, exit_at>>
          ELSE /\ Return("Err", "load")
               /\ UNCHANGED config
    /\ UNCHANGED <<doc, fs, notify, queue, targets, cur, loc, copies,
                   registered, handled, ext>>

\* ------------------------------------------------------------ Config::setup

Before(p, q) == p[1] < q[1] \/ (p[1] = q[1] /\ p[2] < q[2])

\* The position the loops reach after p; <<0, 0>> when they are done.
NextPosition(cfg, p) ==
    LET later == {q \in Positions(cfg) : Before(p, q)}
    IN  IF later = {} THEN <<0, 0>>
        ELSE CHOOSE q \in later : \A r \in later : r = q \/ Before(q, r)

\* Continue with the target at position p, or leave setup with Ok(env).
Goto(p) ==
    /\ cur' = p
    /\ pc' = IF p = <<0, 0>> THEN "stream" ELSE "resolve"

\* Inotify::init and the empty Env; io errors are returned by main.
SetupInit ==
    /\ pc = "init"
    /\ \E ok \in BOOLEAN :
          IF ok
          THEN /\ notify' = [notify EXCEPT !.created = TRUE]
               /\ targets' = <<>>
               /\ Goto(NextPosition(config, <<0, 0>>))
               /\ UNCHANGED <<exit_code, exit_at>>
          ELSE /\ Return("Err", "inotify_init")
               /\ UNCHANGED <<notify, targets, cur>>
    /\ UNCHANGED <<doc, config, fs, queue, loc, copies, registered, handled, ext>>

SelfCopyset == config[cur[1]]
TargetSpec == SelfCopyset.targets[cur[2]]

\* Mutant of TargetOrSource: the target's own path is ignored.
TargetOrSourceIgnored(spec) == spec.source

\* target_spec.target.as_ref().unwrap_or(&target_spec.source).
TargetOrSource(spec) == IF spec.target.some THEN spec.target.val ELSE spec.source

\* Mutant of TryExistsOrFalse: a failed check counts as "exists".
TryExistsOrTrue(checked, found) == IF checked THEN found ELSE TRUE

\* target.try_exists().map_err(...).unwrap_or(false): the answer when the check
\* returned Ok, false when it returned an error.
TryExistsOrFalse(checked, found) == IF checked THEN found ELSE FALSE

\* add_to_watch, first part: the two paths are joined and the target's
\* existence is checked; an error of try_exists counts as "does not exist".
Resolve ==
    /\ pc = "resolve"
    /\ LET source == PathJoin(SelfCopyset.source, TargetSpec.source)
           target == PathJoin(SelfCopyset.target, TargetOrSource(TargetSpec))
       IN  \E checked \in BOOLEAN :
             loc' = [source        |-> source,
                     target        |-> target,
                     target_exists |-> TryExistsOrFalse(checked, Exists(fs, target)),
                     was_present   |-> Exists(fs, target),
                     was_file      |-> FALSE,
                     checked       |-> checked]
    /\ pc' = "reconcile"
    /\ UNCHANGED <<exit_code, exit_at, doc, config, fs, notify, queue, targets, cur,
                   copies, registered, handled, ext>>

\* One entry of the log of copies.
CopyEntry(phase, pos, ev, rt, seen, r) ==
    [phase |-> phase, pos |-> pos, event |-> ev, source |-> rt.source,
     target |-> rt.target, was_present |-> seen.was_present,
     checked |-> seen.checked, ok |-> r.ok, at |-> r.at]

NoEvent == Event(0, "none")

\* Mutant of NeedsInitialCopy: no initial copy is ever made.
NeedsInitialCopyNever(f, l) == FALSE

\* Mutant of NeedsInitialCopy: the copy is made whether or not the target exists.
NeedsInitialCopyAlways(f, l) == IsFile(f, l.source)

\* Mutant of NeedsInitialCopy: the copy is made when the target exists.
NeedsInitialCopyIfFound(f, l) == IsFile(f, l.source) /\ l.target_exists

\* Whether add_to_watch makes the initial copy.
NeedsInitialCopy(f, l) == IsFile(f, l.source) /\ ~l.target_exists

\* add_to_watch, second part: the initial copy when the source is a file and
\* the target was not found; its error is returned through setup and main.
Reconcile ==
    /\ pc = "reconcile"
    /\ IF NeedsInitialCopy(fs, loc)
       THEN \E r \in CopyResults(fs, ResolvedTarget(loc.source, loc.target)) :
              /\ fs' = r.fs
              /\ copies' = Append(copies,
                              CopyEntry("setup", cur, NoEvent,
                                        ResolvedTarget(loc.source, loc.target),
                                        loc, r))
              /\ IF r.ok
                 THEN pc' = "register" /\ UNCHANGED <<exit_code, exit_at>>
                 ELSE Return("Err", "initial_copy")
       ELSE /\ pc' = "register"
            /\ UNCHANGED <<fs, copies, exit_code, exit_at>>
    /\ loc' = [loc EXCEPT !.was_file = IsFile(fs, loc.source)]
    /\ UNCHANGED <<doc, config, notify, queue, targets, cur, registered,
                   handled, ext>>

\* Mutant of EffectiveEvents: the target's own events are ignored.
EffectiveEventsOfCopyset(copyset, spec) == copyset.events

\* The events of the watch: the target's own when it has any, else the copyset's.
EffectiveEvents(copyset, spec) ==
    IF spec.events.some THEN spec.events.val ELSE copyset.events

\* HashMap::insert: an entry under the same key is replaced.
Insert(map, k, v) == [x \in DOMAIN map \cup {k} |-> IF x = k THEN v ELSE map[x]]

\* add_to_watch, third part: the mask is collected, the watch is added and the
\* ResolvedTarget is stored under the descriptor; an error of add is returned.
Register ==
    /\ pc = "register"
    /\ LET mask == CollectMask(EffectiveEvents(SelfCopyset, TargetSpec))
       IN  \E r \in AddResults(notify, fs, loc.source, mask) :
             /\ notify' = r.notify
             /\ registered' = Append(registered,
                                 [pos |-> cur, path |-> loc.source, mask |-> mask,
                                  ok |-> r.ok, wd |-> r.wd,
                                  was_file |-> loc.was_file,
                                  was_present |-> loc.was_present])
             /\ IF r.ok
                THEN /\ targets' = Insert(targets, r.wd,
                                          ResolvedTarget(loc.source, loc.target))
                     /\ Goto(NextPosition(config, cur))
                     /\ loc' = NoLoc
                     /\ UNCHANGED <<exit_code, exit_at>>
                ELSE /\ Return("Err", "add_watch")
                     /\ UNCHANGED <<targets, cur, loc>>
    /\ UNCHANGED <<doc, config, fs, queue, copies, handled, ext>>

\* ----------------------------------------------------------------- Env::run

\* into_event_stream; its error is returned by main.
OpenStream ==
    /\ pc = "stream"
    /\ \E ok \in BOOLEAN :
          IF ok
          THEN pc' = "running" /\ UNCHANGED <<exit_code, exit_at>>
          ELSE Return("Err", "event_stream")
    /\ UNCHANGED <<doc, config, fs, notify, queue, targets, cur, loc, copies,
                   registered, handled, ext>>

\* Mutant of Get: a key that is not in the map finds any entry.
GetOrAny(map, k) ==
    IF k \in DOMAIN map THEN {map[k]} ELSE {map[x] : x \in DOMAIN map}

\* HashMap::get: the entry under the key, if any (a set of at most one).
Get(map, k) == IF k \in DOMAIN map THEN {map[k]} ELSE {}

\* Mutant of StreamNext: the stream yields the newest event first.
StreamNextNewest(q) ==
    [item |-> q[Len(q)], rest |-> SubSeq(q, 1, Len(q) - 1)]

\* stream.next().await on a stream that holds events: the oldest event, and
\* what the stream holds afterwards.
StreamNext(q) == [item |-> Head(q), rest |-> Tail(q)]

\* One turn of the loop on an event: the ResolvedTarget stored under the
\* event's descriptor is copied, whatever the event's kind; a descriptor that is
\* not in the table is logged.  An error of the copy is returned.
Dispatch ==
    /\ pc = "running"
    /\ queue # <<>>
    /\ queue' = StreamNext(queue).rest
    /\ LET event == StreamNext(queue).item
           found == Get(targets, event.wd)
       IN  IF found # {}
           THEN \E target \in found : \E r \in CopyResults(fs, target) :
                  /\ fs' = r.fs
                  /\ copies' = Append(copies,
                                  CopyEntry("dispatch", <<0, 0>>, event, target,
                                            [was_present |-> Exists(fs, target.target),
                                             checked |-> TRUE], r))
                  /\ handled' = Append(handled, [event |-> event, known |-> TRUE])
                  /\ IF r.ok
                     THEN UNCHANGED <<pc, exit_code, exit_at>>
                     ELSE Return("Err", "dispatch_copy")
           ELSE /\ handled' = Append(handled, [event |-> event, known |-> FALSE])
                /\ UNCHANGED <<pc, exit_code, exit_at, fs, copies>>
    /\ UNCHANGED <<doc, config, notify, targets, cur, loc, registered, ext>>

\* The stream yields an error (a failed read): it is returned.
StreamError ==
    /\ pc = "running"
    /\ handled' = Append(handled, [event |-> Event(0, "Err"), known |-> FALSE])
    /\ Return("Err", "stream_error")
    /\ UNCHANGED <<doc, config, fs, notify, queue, targets, cur, loc, copies,
                   registered, ext>>

\* The stream ends: run returns Ok(()) and so does main.
StreamEnd ==
    /\ pc = "running"
    /\ queue = <<>>
    /\ Return("Ok", "stream_end")
    /\ UNCHANGED <<doc, config, fs, notify, queue, targets, cur, loc, copies,
                   registered, handled, ext>>

\* ------------------------------------------------------------- environment

\* The environment acts while the process is between Inotify::init and its exit.
EnvMayAct ==
    /\ pc \in {"resolve", "reconcile", "register", "stream", "running"}
    /\ ext < MaxExt
    /\ ext' = ext + 1

\* Another process writes to a source file.
ExtModify ==
    /\ EnvMayAct
    /\ \E p \in SourcePaths(config) :
          /\ IsFile(fs, p)
          /\ fs' = [fs EXCEPT ![p] = File(@.data + 1)]
          /\ LET k == Deliver(Kernel, p, "MODIFY")
             IN  notify' = k.notify /\ queue' = k.queue
    /\ UNCHANGED <<pc, exit_code, exit_at, doc, config, targets, cur, loc, copies,
                   registered, handled>>

\* Another process reads a watched source file.
ExtAccess ==
    /\ EnvMayAct
    /\ \E p \in SourcePaths(config) :
          /\ IsFile(fs, p)
          /\ \E w \in WatchesOn(notify, p) : "ACCESS" \in w.mask
          /\ LET k == Deliver(Kernel, p, "ACCESS")
             IN  notify' = k.notify /\ queue' = k.queue
    /\ UNCHANGED <<pc, exit_code, exit_at, doc, config, fs, targets, cur, loc,
                   copies, registered, handled>>

\* Another process deletes a source file: DELETE_SELF is reported and the
\* kernel removes the watch.
ExtDelete ==
    /\ EnvMayAct
    /\ \E p \in SourcePaths(config) :
          /\ IsFile(fs, p)
          /\ fs' = [fs EXCEPT ![p] = Absent]
          /\ LET k == Forget(Deliver(Kernel, p, "DELETE_SELF"), p)
             IN  notify' = k.notify /\ queue' = k.queue
    /\ UNCHANGED <<pc, exit_code, exit_at, doc, config, targets, cur, loc, copies,
                   registered, handled>>

\* ------------------------------------------------------------ specification

Next ==
    \/ ParseHelp
    \/ ParseUsageError
    \/ PrintVersion
    \/ LoadConfig
    \/ SetupInit
    \/ Resolve
    \/ Reconcile
    \/ Register
    \/ OpenStream
    \/ Dispatch
    \/ StreamError
    \/ StreamEnd
    \/ ExtModify
    \/ ExtAccess
    \/ ExtDelete

Spec == Init /\ [][Next]_vars

\* ------------------------------------------------------------------ claims

\* The event names the document gives the watch of the target at position p:
\* the target's own list when it has one, else the copyset's, else the default.
ClaimedEventNames(d, p) ==
    LET c == d[p[1]]
        t == c.targets[p[2]]
    IN  IF t.events.some THEN t.events.val
        ELSE IF c.events.some THEN c.events.val
        ELSE <<"CREATE", "DELETE", "MODIFY">>

ClaimedMask(d, p) ==
    LET names == ClaimedEventNames(d, p)
    IN  UNION {WatchMaskFrom(DeserializeEvent(names[i])) : i \in DOMAIN names}

\* C1: the mask of every watch registration is the union of the target's own
\* events when the target has an events list, else of the copyset's events,
\* where a copyset without events has CREATE, DELETE, MODIFY.
C1_MaskIsOverrideElseDefault ==
    \A i \in DOMAIN registered :
        registered[i].mask = ClaimedMask(doc, registered[i].pos)

\* C1's case: one watch registered with an override that differs from its
\* copyset's events, and one registered without override under a copyset that
\* has no events.
C1_Witness ==
    \E i, j \in DOMAIN registered :
        LET pi == registered[i].pos
            pj == registered[j].pos
        IN  /\ registered[i].ok /\ registered[j].ok
            /\ doc[pi[1]].targets[pi[2]].events.some
            /\ registered[i].mask # CollectMask(config[pi[1]].events)
            /\ ~doc[pj[1]].targets[pj[2]].events.some
            /\ ~doc[pj[1]].events.some
            /\ registered[j].mask = {"CREATE", "DELETE", "MODIFY"}

\* base (+) rel: the components of rel after those of base.
Concat(base, rel) == Path(base.abs, base.comps \o rel.comps)

ClaimedSource(d, p) == Concat(d[p[1]].source, d[p[1]].targets[p[2]].source)

ClaimedTarget(d, p) ==
    LET t == d[p[1]].targets[p[2]]
    IN  Concat(d[p[1]].target, IF t.target.some THEN t.target.val ELSE t.source)

\* The target table at position p gives relative paths.
IsRelative(d, p) ==
    LET t == d[p[1]].targets[p[2]]
    IN  ~t.source.abs /\ ~(t.target.some /\ t.target.val.abs)

\* C2: for a target table with relative paths, the resolved source is the
\* copyset's source base followed by the relative source, and the resolved target
\* is the copyset's target base followed by the relative target when there is
\* one, else by the relative source: in add_to_watch's locals, in every initial
\* copy, in every watch registration and in the watch table.
C2_ResolvedPaths ==
    /\ (pc \in {"reconcile", "register"} /\ IsRelative(doc, cur))
         => /\ loc.source = ClaimedSource(doc, cur)
            /\ loc.target = ClaimedTarget(doc, cur)
    /\ \A i \in DOMAIN registered :
         IsRelative(doc, registered[i].pos)
         => registered[i].path = ClaimedSource(doc, registered[i].pos)
    /\ \A i \in DOMAIN copies :
         (copies[i].phase = "setup" /\ IsRelative(doc, copies[i].pos))
         => /\ copies[i].source = ClaimedSource(doc, copies[i].pos)
            /\ copies[i].target = ClaimedTarget(doc, copies[i].pos)
    /\ (\A p \in Positions(doc) : IsRelative(doc, p))
         => \A wd \in DOMAIN targets :
              \E p \in Positions(doc) :
                 targets[wd] = ResolvedTarget(ClaimedSource(doc, p), ClaimedTarget(doc, p))

\* C2's case: two initial copies have succeeded, one for a target table with
\* its own relative target and one for a target table without target.
C2_Witness ==
    \E i, j \in DOMAIN copies :
        LET pi == copies[i].pos
            pj == copies[j].pos
        IN  /\ copies[i].phase = "setup" /\ copies[i].ok
            /\ copies[j].phase = "setup" /\ copies[j].ok
            /\ doc[pi[1]].targets[pi[2]].target.some
            /\ IsRelative(doc, pi)
            /\ copies[i].target = Path(TRUE, <<"dst", "sub", "a">>)
            /\ ~doc[pj[1]].targets[pj[2]].target.some
            /\ copies[j].target = Path(TRUE, <<"dst", "b">>)
            /\ Len(registered) = 2 /\ registered[2].ok

\* The initial copies made for the target at position p.
SetupCopies(p) ==
    {k \in DOMAIN copies : copies[k].phase = "setup" /\ copies[k].pos = p}

\* The one initial copy of position p has been made and has succeeded.
InitialCopyDone(p) ==
    /\ Cardinality(SetupCopies(p)) = 1
    /\ \A k \in SetupCopies(p) : copies[k].ok

\* C3: when add_to_watch finds the source a regular file and the target was
\* missing, exactly one initial copy of that target has been made, and has
\* succeeded, by the time its watch registration is called; no target gets a
\* second initial copy, and no event is dispatched while setup is at work.
C3_InitialCopyBeforeWatch ==
    /\ \A p \in Positions(doc) : Cardinality(SetupCopies(p)) <= 1
    /\ (pc = "register" /\ loc.was_file /\ ~loc.was_present)
         => InitialCopyDone(cur)
    /\ \A i \in DOMAIN registered :
         (registered[i].was_file /\ ~registered[i].was_present)
         => InitialCopyDone(registered[i].pos)
    /\ handled # <<>> => pc \in {"running", "exit"}
    /\ \A i \in DOMAIN queue :
         queue[i].wd \in DOMAIN targets
         => \E j \in DOMAIN registered :
               /\ registered[j].ok /\ registered[j].wd = queue[i].wd
               /\ (registered[j].was_file /\ ~registered[j].was_present)
                    => InitialCopyDone(registered[j].pos)

\* C3's case: a source that was a file with its target missing got its watch,
\* and an event of that watch has been dispatched.
C3_Witness ==
    \E i \in DOMAIN registered, h \in DOMAIN handled :
        /\ registered[i].ok
        /\ registered[i].was_file /\ ~registered[i].was_present
        /\ InitialCopyDone(registered[i].pos)
        /\ handled[h].known
        /\ handled[h].event.wd = registered[i].wd
        /\ handled[h].event.kind = "MODIFY"

\* C4 as stated: no initial copy overwrites a target that existed when setup
\* checked it.
C4_NoCopyOverExistingTarget ==
    \A k \in DOMAIN copies :
        (copies[k].phase = "setup" /\ copies[k].ok) => ~copies[k].was_present

\* What a run of setup on filesystem f would copy for position p, its
\* existence check succeeding.
WouldCopy(f, p) ==
    /\ IsFile(f, PathJoin(config[p[1]].source, config[p[1]].targets[p[2]].source))
    /\ ~Exists(f, PathJoin(config[p[1]].target,
                            TargetOrSource(config[p[1]].targets[p[2]])))

\* C4, amended: no initial copy is made for a target whose existence check
\* succeeded and found it, whatever its content; and once setup has succeeded,
\* a second run of setup whose checks succeed has nothing to copy.
C4_NoCopyWhenTargetFound ==
    /\ \A k \in DOMAIN copies :
         copies[k].phase = "setup" => ~(copies[k].was_present /\ copies[k].checked)
    /\ pc \in {"stream", "running"} => \A p \in Positions(config) : ~WouldCopy(fs, p)

\* C4's case: setup has succeeded for a source that is a file and whose target
\* was there with another content, without any initial copy, and the target
\* still differs from the source.
C4_Witness ==
    /\ pc = "stream"
    /\ copies = <<>>
    /\ \E i \in DOMAIN registered :
         /\ registered[i].ok
         /\ registered[i].was_file /\ registered[i].was_present
         /\ fs[targets[registered[i].wd].target] # fs[registered[i].path]
         /\ IsFile(fs, targets[registered[i].wd].target)

\* The loop has just taken the event at the head of the queue, and the event's
\* descriptor is not in the watch table.
TookUnknown ==
    /\ pc = "running"
    /\ queue # <<>>
    /\ Head(queue).wd \notin DOMAIN targets
    /\ Len(handled') = Len(handled) + 1
    /\ handled'[Len(handled')].event = Head(queue)

\* C5: a turn of the dispatch loop on an event whose descriptor is not in the
\* watch table makes no copy, changes neither the filesystem, the watch table
\* nor the inotify instance, and leaves the loop running with the rest of the
\* queue to process.
C5_UnknownDescriptorSkipped ==
    [][TookUnknown => /\ copies' = copies
                      /\ fs' = fs
                      /\ targets' = targets
                      /\ notify' = notify
                      /\ pc' = "running"
                      /\ queue' = Tail(queue)]_vars

\* C5's case: the loop took an event with an unknown descriptor and then took,
\* and copied for, a later event.
C5_Witness ==
    \E i, j \in DOMAIN handled :
        /\ i < j
        /\ ~handled[i].known
        /\ handled[i].event.wd \notin DOMAIN targets
        /\ handled[j].known
        /\ \E k \in DOMAIN copies :
              copies[k].phase = "dispatch" /\ copies[k].event = handled[j].event

\* C6 as stated: after a successful setup the watch table holds one entry for
\* each target processed.
C6_OneEntryPerTarget ==
    pc \in {"stream", "running"}
    => Cardinality(DOMAIN targets) = Cardinality(Positions(config))

\* C7 as stated: every copy the dispatch loop makes is for an event whose kind
\* is in the mask its watch was registered with.
C7_OnlySelectedKindsCopy ==
    \A k \in DOMAIN copies :
        copies[k].phase = "dispatch"
        => \E j \in DOMAIN registered :
              /\ registered[j].ok
              /\ registered[j].wd = copies[k].event.wd
              /\ copies[k].event.kind \in registered[j].mask

\* The 18 upper-snake-case event names.
UpperSnakeNames ==
    {"ACCESS", "ATTRIB", "CLOSE_WRITE", "CLOSE_NOWRITE", "CREATE", "DELETE",
     "DELETE_SELF", "MODIFY", "MOVE_SELF", "MOVED_FROM", "MOVED_TO", "OPEN",
     "ALL", "MOVE", "CLOSE", "DONT_FOLLOW", "EXCL_UNLINK", "ONESHOT"}

\* The event names of a document, at copyset level and at target level.
EventNames(d) ==
    UNION {{d[c].events.val[i] : i \in DOMAIN d[c].events.val} : c \in DOMAIN d}
    \cup UNION {{d[p[1]].targets[p[2]].events.val[i] :
                    i \in DOMAIN d[p[1]].targets[p[2]].events.val} : p \in Positions(d)}

\* A document names an event that is neither a variant nor an alias.
HasUnknownName(d) ==
    \E n \in EventNames(d) : \A v \in NotifyEvent : n # v /\ n # Alias(v)

NothingStarted ==
    /\ ~notify.created
    /\ notify.watches = {}
    /\ copies = <<>>
    /\ registered = <<>>
    /\ DOMAIN targets = {}

\* C8: when Config::load fails, main ends with a non-zero status and the
\* inotify instance was not created, no copy was made and no watch was
\* registered; a document with an unrecognized event name, at copyset or at
\* target level, never gets past Config::load.
C8_LoadFailureStopsFirst ==
    /\ exit_at = "load" => (exit_code # 0 /\ NothingStarted)
    /\ HasUnknownName(doc)
         => /\ pc \in {"main", "exit"}
            /\ NothingStarted
            /\ exit_at \in {"none", "help", "usage", "version", "load"}

\* C8's case: main has ended in Config::load on a document with an
\* unrecognized event name at target level.
C8_Witness ==
    /\ pc = "exit"
    /\ exit_at = "load"
    /\ exit_code = 1
    /\ \E p \in Positions(doc) :
         doc[p[1]].targets[p[2]].events = Some(<<"BOGUS">>)

\* C9 as stated: the status is 0 exactly after a version query and after the
\* event stream ended.
C9_ZeroOnlyForVersionAndStreamEnd ==
    pc = "exit" => (exit_code = 0 <=> exit_at \in {"version", "stream_end"})

\* Setup succeeded and nothing failed in the dispatch loop.
CleanRun ==
    /\ config # <<>>
    /\ notify.created
    /\ Len(registered) = Cardinality(Positions(config))
    /\ \A i \in DOMAIN registered : registered[i].ok
    /\ \A k \in DOMAIN copies : copies[k].ok
    /\ \A h \in DOMAIN handled : handled[h].event.kind # "Err"
    /\ queue = <<>>

\* C9, amended: the status is 0 exactly after a help request (answered by the
\* argument parser), after a version query, both before anything is loaded or
\* registered, and after the event stream ended following a successful setup
\* and a dispatch without failure; every other exit has a non-zero status.
C9_ZeroOnlyForHelpVersionAndStreamEnd ==
    pc = "exit"
    => /\ exit_code = 0 <=> exit_at \in {"help", "version", "stream_end"}
       /\ exit_at \in {"help", "version"} => (config = <<>> /\ NothingStarted)
       /\ exit_at = "stream_end" => CleanRun
       /\ exit_code = 0 => \/ (config = <<>> /\ NothingStarted)
                           \/ CleanRun

\* C9's case: main has ended with 0 after the stream ended, having dispatched
\* an event.
C9_Witness ==
    /\ pc = "exit"
    /\ exit_code = 0
    /\ exit_at = "stream_end"
    /\ \E h \in DOMAIN handled : handled[h].known

\* C10 as stated: a document is accepted only if each of its event names is
\* one of the 18 upper-snake-case names.
C10_OnlyUpperSnakeAccepted ==
    config # <<>> => EventNames(doc) \subseteq UpperSnakeNames

\* An initial copy or a watch registration of setup has failed.
SetupFailed ==
    \/ \E k \in DOMAIN copies : copies[k].phase = "setup" /\ ~copies[k].ok
    \/ \E i \in DOMAIN registered : ~registered[i].ok

\* C11: once an initial copy or a watch registration has failed, the process
\* has exited with that error: the failed call is the last one setup made, no
\* later target of the copyset and no later copyset got a copy or a
\* registration, and no event was read or dispatched from the table built so far.
C11_SetupFailureAborts ==
    SetupFailed =>
        /\ pc = "exit" /\ exit_code = 1
        /\ exit_at \in {"initial_copy", "add_watch"}
        /\ exit_at = "initial_copy" =>
              /\ ~copies[Len(copies)].ok /\ copies[Len(copies)].pos = cur
              /\ \A i \in DOMAIN registered :
                    registered[i].ok /\ Before(registered[i].pos, cur)
        /\ exit_at = "add_watch" =>
              /\ ~registered[Len(registered)].ok
              /\ registered[Len(registered)].pos = cur
              /\ \A k \in DOMAIN copies : copies[k].ok
        /\ \A k \in DOMAIN copies :
              /\ copies[k].phase = "setup"
              /\ copies[k].pos = cur \/ Before(copies[k].pos, cur)
        /\ \A i \in DOMAIN registered :
              registered[i].pos = cur \/ Before(registered[i].pos, cur)
        /\ handled = <<>>

\* C11's case: setup failed on a target that a later target follows, with the
\* table already holding the watch of an earlier target or not.
C11_Witness ==
    /\ SetupFailed
    /\ pc = "exit"
    /\ NextPosition(config, cur) # <<0, 0>>
    /\ exit_at = "add_watch"

\* The copies the dispatch loop made, and the items it took that it knew.
DispatchCopies == {k \in DOMAIN copies : copies[k].phase = "dispatch"}
KnownHandled == {h \in DOMAIN handled : handled[h].known}

\* C12: once a copy made by the dispatch loop has failed, the process has
\* exited with that error: the failed copy is the last copy and its event the
\* last item taken from the stream, the event was copied once (no retry), and
\* what the stream still holds is never read.
C12_DispatchCopyFailureStops ==
    (\E k \in DispatchCopies : ~copies[k].ok) =>
        /\ pc = "exit" /\ exit_code = 1 /\ exit_at = "dispatch_copy"
        /\ \A k \in DOMAIN copies : ~copies[k].ok => k = Len(copies)
        /\ handled # <<>>
        /\ handled[Len(handled)].known
        /\ handled[Len(handled)].event = copies[Len(copies)].event
        /\ Cardinality(DispatchCopies) = Cardinality(KnownHandled)

\* C12's case: the copy for an event failed because the source was gone, and
\* the stream still held an event.
C12_Witness ==
    /\ copies # <<>>
    /\ copies[Len(copies)].phase = "dispatch"
    /\ ~copies[Len(copies)].ok
    /\ ~Exists(fs, copies[Len(copies)].source)
    /\ queue # <<>>
    /\ pc = "exit"

\* The items taken from the stream that were errors.
ErrorItems == {h \in DOMAIN handled : handled[h].event.kind = "Err"}

\* C13: once the stream has yielded an error, the process has exited with it:
\* the error is the last item taken from the stream, no copy was made for it,
\* and what the stream still holds is never read.
C13_StreamErrorStops ==
    ErrorItems # {} =>
        /\ pc = "exit" /\ exit_code = 1 /\ exit_at = "stream_error"
        /\ ErrorItems = {Len(handled)}
        /\ ~handled[Len(handled)].known
        /\ \A k \in DispatchCopies : copies[k].event.kind # "Err"
        /\ Cardinality(DispatchCopies) = Cardinality(KnownHandled)

\* C13's case: the stream yielded an error after an event had been copied, while
\* the kernel's queue still held an event of a watch in the table.
C13_Witness ==
    /\ ErrorItems # {}
    /\ KnownHandled # {}
    /\ queue # <<>>
    /\ queue[1].wd \in DOMAIN targets

\* One step of the process for a target whose existence check failed.
C14_Step ==
    /\ (pc = "resolve" /\ pc' = "reconcile" /\ ~loc'.checked)
         => ~loc'.target_exists
    /\ (pc = "reconcile" /\ pc' # "reconcile" /\ ~loc.checked) =>
         /\ IsFile(fs, loc.source) =>
              /\ Len(copies') = Len(copies) + 1
              /\ copies'[Len(copies')].phase = "setup"
              /\ copies'[Len(copies')].pos = cur
              /\ copies'[Len(copies')].source = loc.source
              /\ copies'[Len(copies')].target = loc.target
              /\ pc' = "register" <=> copies'[Len(copies')].ok
              /\ pc' = "exit" <=> ~copies'[Len(copies')].ok
         /\ ~IsFile(fs, loc.source) => (copies' = copies /\ pc' = "register")
    /\ (pc = "register" /\ pc' # "register" /\ ~loc.checked) =>
         /\ Len(registered') = Len(registered) + 1
         /\ registered'[Len(registered')].pos = cur
         /\ registered'[Len(registered')].path = loc.source

\* C14: a failed existence check does not end setup and counts as "the target
\* does not exist": when the source is a regular file the initial copy is made,
\* over an existing target too, and whether the source is a regular file or
\* not the next thing setup does for the target, unless that copy fails, is to
\* register its watch.
C14_FailedCheckIsNotFatal == [][C14_Step]_vars

\* C14's case: the check failed for a target that existed, the initial copy
\* was made over it and setup is at the registration of that target's watch.
C14_Witness ==
    /\ pc = "register"
    /\ ~loc.checked /\ loc.was_present /\ loc.was_file
    /\ InitialCopyDone(cur)
    /\ fs[loc.target] = fs[loc.source]

\* s is the beginning of t.
SeqPrefix(s, t) == Len(s) <= Len(t) /\ SubSeq(t, 1, Len(s)) = s

\* The events of a log, in its order.
EventsOf(log) == [i \in DOMAIN log |-> log[i].event]

\* The events the kernel has delivered so far, in the order it queued them:
\* those the loop has taken, then those still in the stream.
Delivered ==
    EventsOf(SelectSeq(handled, LAMBDA h : h.event.kind # "Err")) \o queue

IsDispatchCopy(c) == c.phase = "dispatch"
IsKnown(h) == h.known

\* One step, seen from the stream and from the two logs.
C15_Step ==
    /\ SeqPrefix(Delivered, Delivered')
    /\ SeqPrefix(handled, handled') /\ Len(handled') <= Len(handled) + 1
    /\ SeqPrefix(copies, copies') /\ Len(copies') <= Len(copies) + 1
    /\ (pc = "running" /\ queue # <<>> /\ Len(handled') = Len(handled) + 1
        /\ handled'[Len(handled')].event.kind # "Err")
         => /\ handled'[Len(handled')].event = Head(queue)
            /\ queue' = Tail(queue)
            /\ handled'[Len(handled')].known =>
                 /\ Len(copies') = Len(copies) + 1
                 /\ copies'[Len(copies')].event = Head(queue)
            /\ ~handled'[Len(handled')].known => copies' = copies
    /\ EventsOf(SelectSeq(copies', IsDispatchCopy))
         = EventsOf(SelectSeq(handled', IsKnown))

ResolvedAt(p) ==
    LET copyset == config[p[1]]
        spec    == copyset.targets[p[2]]
    IN  ResolvedTarget(PathJoin(copyset.source, spec.source),
                       PathJoin(copyset.target, TargetOrSource(spec)))

\* C16 as stated: an event of a known descriptor gets exactly one copy, made
\* with the paths of the target that was registered under the descriptor, never
\* with those of another target, and a copy that succeeds leaves the target
\* equal to the source.
C16_CopyUsesRegisteredPaths ==
    /\ Cardinality(DispatchCopies) = Cardinality(KnownHandled)
    /\ \A k \in DispatchCopies :
         \A i \in DOMAIN registered :
            (registered[i].ok /\ registered[i].wd = copies[k].event.wd)
            => ResolvedTarget(copies[k].source, copies[k].target)
                 = ResolvedAt(registered[i].pos)

\* What a step that calls ResolvedTarget::copy, in setup or in the loop, does
\* to the filesystem; e is the entry the call leaves in the log.
C17_Step ==
    Len(copies') = Len(copies) + 1 =>
        LET e      == copies'[Len(copies')]
            parent == PathParent(e.target)
            made   == {q \in Prefixes(parent) : ~Exists(fs, q)}
        IN  /\ \A q \in DOMAIN fs : q \notin made \cup {e.target} => fs'[q] = fs[q]
            /\ \A q \in made : fs'[q] \in {Absent, Dir}
            /\ (~e.ok /\ e.at = "create_dir_all") =>
                  /\ ~Exists(fs, parent)
                  /\ fs' = fs
            /\ e.at = "copy" => \A q \in Prefixes(parent) : Exists(fs', q)
            /\ ~e.ok => fs'[e.target] = fs[e.target]
            /\ e.ok =>
                  /\ e.at = "copy"
                  /\ IsFile(fs, e.source)
                  /\ IsDir(fs', parent)
                  /\ fs'[e.target] = fs[e.source]
                  /\ fs'[e.source] = fs[e.source]
            /\ ~IsFile(fs, e.source) => ~e.ok

\* C17: a copy first makes the target's parent directory, with every missing
\* ancestor, when the parent does not exist; when that fails it returns the
\* error and the filesystem is as it was (no file copy); else it copies the
\* source over the target, whatever the target held: after a success every
\* ancestor of the target exists, the parent is a directory and the target
\* holds what the source holds.  A copy of a source that is not there fails.
C17_CopyMakesParentThenCopies == [][C17_Step]_vars

\* C17's case: a copy made the missing directories above /dst/sub/a before it
\* wrote the file, and a later copy overwrote it with the source's new content.
C17_Witness ==
    \E j, k \in DOMAIN copies :
        /\ j < k
        /\ copies[j].ok /\ copies[j].target = Path(TRUE, <<"dst", "sub", "a">>)
        /\ ~copies[j].was_present
        /\ copies[k].ok /\ copies[k].was_present
        /\ copies[k].target = copies[j].target
        /\ fs[copies[k].target] = File(2)
        /\ fs[copies[k].source] = File(2)

\* ------------------------------------------- specification of the event masks

\* The event names the documents of this specification choose from: every upper
\* snake case name alone, and two pairs with a compound name.
MaskDocEvents ==
    {Some(<<Alias(v)>>) : v \in NotifyEvent}
    \cup {Some(<<"MOVE", "MOVE_SELF">>), Some(<<"CLOSE", "MODIFY">>)}

\* One copyset with one target, /src/a to /dst/a, for each choice of events.
MaskDocuments ==
    {<<Copyset(e, SourceBase, TargetBase,
               <<Target(NoEvents, Path(FALSE, <<"a">>), NoPath)>>)>> :
        e \in MaskDocEvents}

\* The source is a file whose target exists, or a directory.
MaskInit ==
    /\ pc = "main"
    /\ exit_code = -1
    /\ exit_at = "none"
    /\ doc \in MaskDocuments
    /\ config = <<>>
    /\ fs \in {MakeFs(File(1), "full"), MakeFs(Dir, "none")}
    /\ notify = [created |-> FALSE, watches |-> {}, next |-> 1]
    /\ queue = <<>>
    /\ targets = <<>>
    /\ cur = <<0, 0>>
    /\ loc = NoLoc
    /\ copies = <<>>
    /\ registered = <<>>
    /\ handled = <<>>
    /\ ext = 0

\* The kinds of event the kernel reports on a watched file besides ACCESS,
\* MODIFY and DELETE_SELF, and those it reports on a watched directory for
\* what happens to its entries.
FileKinds == {"ATTRIB", "OPEN", "CLOSE_WRITE", "CLOSE_NOWRITE", "MOVE_SELF"}
EntryKinds == {"CREATE", "DELETE", "MOVED_FROM", "MOVED_TO"}

\* Another process opens, closes, renames or changes the attributes of a
\* watched source, or creates, deletes or renames an entry of a watched
\* directory.  A renamed source is gone from its path; its watch stays.
ExtReport ==
    /\ EnvMayAct
    /\ \E p \in SourcePaths(config) :
          /\ WatchesOn(notify, p) # {}
          /\ Exists(fs, p)
          /\ \E kind \in FileKinds \cup (IF IsDir(fs, p) THEN EntryKinds ELSE {}) :
                /\ fs' = IF kind = "MOVE_SELF" THEN [fs EXCEPT ![p] = Absent] ELSE fs
                /\ LET k == Deliver(Kernel, p, kind)
                   IN  notify' = k.notify /\ queue' = k.queue
    /\ UNCHANGED <<pc, exit_code, exit_at, doc, config, targets, cur, loc, copies,
                   registered, handled>>

MaskNext == Next \/ ExtReport

MaskSpec == MaskInit /\ [][MaskNext]_vars

\* The kinds a name stands for as C18 states them, and as inotify defines them
\* (IN_MOVE is IN_MOVED_FROM | IN_MOVED_TO).  The flags select no kind.
EveryKind ==
    {"ACCESS", "ATTRIB", "CLOSE_WRITE", "CLOSE_NOWRITE", "CREATE", "DELETE",
     "DELETE_SELF", "MODIFY", "MOVE_SELF", "MOVED_FROM", "MOVED_TO", "OPEN"}

StatedKinds(name) ==
    CASE name = "ALL"   -> EveryKind
      [] name = "MOVE"  -> {"MOVED_FROM", "MOVED_TO", "MOVE_SELF"}
      [] name = "CLOSE" -> {"CLOSE_WRITE", "CLOSE_NOWRITE"}
      [] OTHER          -> {name} \cap EveryKind

Kinds(name) ==
    CASE name = "ALL"   -> EveryKind
      [] name = "MOVE"  -> {"MOVED_FROM", "MOVED_TO"}
      [] name = "CLOSE" -> {"CLOSE_WRITE", "CLOSE_NOWRITE"}
      [] OTHER          -> {name} \cap EveryKind

\* The event names of the watch that registration i asked for.
NamesOf(i) == ClaimedEventNames(doc, registered[i].pos)

\* The source of a watch that is still in place was renamed.
Moved(i) ==
    /\ registered[i].ok
    /\ WatchesOn(notify, registered[i].path) # {}
    /\ ~Exists(fs, registered[i].path)

\* The events of a descriptor that the kernel has queued so far.
EventsFor(wd) == {Delivered[n] : n \in {m \in DOMAIN Delivered : Delivered[m].wd = wd}}

\* C18 as stated: the kinds a registered mask selects are those of its names,
\* with MOVE standing for MOVED_FROM, MOVED_TO and MOVE_SELF, so that a watch
\* with only MOVE has an event queued when its source is renamed.
C18_MoveIncludesMoveSelf ==
    \A i \in DOMAIN registered :
        /\ registered[i].mask \cap EveryKind
             = UNION {StatedKinds(NamesOf(i)[n]) : n \in DOMAIN NamesOf(i)}
        /\ (NamesOf(i) = <<"MOVE">> /\ Moved(i))
             => \E n \in DOMAIN Delivered :
                   \/ Delivered[n] = Event(registered[i].wd, "MOVE_SELF")
                   \/ Delivered[n].kind = Q_OVERFLOW

\* C18, amended: the kinds a registered mask selects are those of its names,
\* with ALL standing for every kind, MOVE for MOVED_FROM and MOVED_TO and CLOSE
\* for CLOSE_WRITE and CLOSE_NOWRITE; the kernel queues no event of a kind the
\* mask does not select, so the renaming of the source of a watch with only
\* MOVE queues no MOVE_SELF event.
C18_MoveIsMovedFromAndMovedTo ==
    \A i \in DOMAIN registered :
        /\ registered[i].mask \cap EveryKind
             = UNION {Kinds(NamesOf(i)[n]) : n \in DOMAIN NamesOf(i)}
        /\ registered[i].ok =>
              \A e \in EventsFor(registered[i].wd) :
                 e.kind \in registered[i].mask \cup {IGNORED}
        /\ (NamesOf(i) = <<"MOVE">> /\ Moved(i))
             => Event(registered[i].wd, "MOVE_SELF") \notin EventsFor(registered[i].wd)

\* C18's case: a watch with only MOVE is in place, the loop is running, and the
\* source has been renamed.
C18_Witness ==
    /\ pc = "running"
    /\ \E i \in DOMAIN registered : NamesOf(i) = <<"MOVE">> /\ Moved(i)
    /\ queue = <<>> /\ handled = <<>>

\* The loop waits for an event, nothing is queued and no event was lost to a
\* queue overflow: unless a source is touched again, no copy will be made.
Idle ==
    /\ pc = "running"
    /\ queue = <<>>
    /\ \A h \in DOMAIN handled : handled[h].event.kind # Q_OVERFLOW

\* The target at position p shares neither its source nor its target with
\* another target of the configuration.
Alone(p) ==
    \A q \in Positions(config) \ {p} :
        /\ ResolvedAt(q).source # ResolvedAt(p).source
        /\ ResolvedAt(q).target # ResolvedAt(p).target

\* Registration i left a watch that selects MODIFY and is still in place.
WatchesModify(i) ==
    /\ registered[i].ok
    /\ "MODIFY" \in registered[i].mask
    /\ \E w \in WatchesOn(notify, registered[i].path) :
          w.wd = registered[i].wd /\ w.mask = registered[i].mask

\* C19 as stated: a write to a source made after setup began its target's
\* initial reconciliation is followed by a copy, also when it falls between
\* the initial copy and the registration of the watch.  So whenever the loop is
\* idle, a target that got its initial copy and whose watch selects MODIFY
\* holds what its source holds.
C19_NoModificationLost ==
    Idle =>
        \A i \in DOMAIN registered :
            LET p == registered[i].pos
            IN  (WatchesModify(i) /\ Alone(p) /\ InitialCopyDone(p))
                => fs[ResolvedAt(p).target] = fs[ResolvedAt(p).source]

\* Setup has returned Ok(env): the stream is about to be opened, or the loop
\* is running.
SetupDone == pc \in {"stream", "running"}

\* C20: when setup has completed, every target of the configuration has its
\* watch, and the target of every source that was a regular file when setup
\* looked at it exists, because it was there already or because the one
\* initial copy made it (the environment deletes no target).  A source that
\* was not a regular file got no initial copy, and setup went on to call the
\* registration of its watch.
C20_TargetsExistAfterSetup ==
    /\ SetupDone =>
          \A p \in Positions(config) :
             \E i \in DOMAIN registered :
                /\ registered[i].pos = p /\ registered[i].ok
                /\ registered[i].was_file =>
                      /\ Exists(fs, ResolvedAt(p).target)
                      /\ registered[i].was_present \/ InitialCopyDone(p)
    /\ \A i \in DOMAIN registered :
          ~registered[i].was_file => SetupCopies(registered[i].pos) = {}
    /\ (pc = "register" /\ ~loc.was_file) => SetupCopies(cur) = {}
    /\ \A p \in Positions(config) :
          Before(p, cur) => \E i \in DOMAIN registered : registered[i].pos = p

\* C20's case: the loop runs after a setup of two targets: the first source is
\* a directory, not copied, and watched; the second is a file whose target was
\* missing and has been made by the initial copy.
C20_Witness ==
    /\ pc = "running"
    /\ \E i, j \in DOMAIN registered :
          /\ registered[i].ok /\ ~registered[i].was_file
          /\ SetupCopies(registered[i].pos) = {}
          /\ registered[j].ok /\ registered[j].was_file
          /\ ~registered[j].was_present
          /\ InitialCopyDone(registered[j].pos)
          /\ IsFile(fs, ResolvedAt(registered[j].pos).target)

====
